---- MODULE Spec2Model ----
(***************************************************************************)
(* Peer connection manager (chain/network/src/peer_manager.rs).            *)
(*                                                                         *)
(* The manager (PeerManagerActor) is an actor: it handles one message at a *)
(* time and every handler runs to completion.  Each handler is written     *)
(* below as an operator from the manager's fields (and the handler's       *)
(* inputs) to the manager's fields after the handler, named as in the      *)
(* source.  Two specifications use them:                                   *)
(*   Spec      one manager, its mailbox, its peer sessions and the clock;  *)
(*   SpecPair  two managers that dial each other at the same time.         *)
(***************************************************************************)
EXTENDS Integers, Sequences, FiniteSets, TLC

-----------------------------------------------------------------------------
(* Bounds of the model.                                                    *)

\* Utc::now() ranges over 0..MaxTime.
MaxTime == 3
\* Number of peer sessions (Peer actors) the manager creates in one run.
MaxSessions == 3
\* Number of self-notified OutboundTcpConnect messages waiting in the mailbox.
MaxMailbox == 1
\* Number of steps (messages handled, session events, clock changes) of one run.
MaxSteps == 5
\* Number of steps of one run of the control loop with bans and clock changes.
MaxSweepSteps == 7
\* Number of steps of one run of connections being set up.
MaxConnectSteps == 6
\* Number of ticks and inbound connections of one fair run.
MaxLiveSteps == 2
\* Number of steps of one run with requests of the client layer.
MaxQuerySteps == 5
\* Number of steps of one run with expiry, dials and gossip.
MaxExpireSteps == 6
\* Number of steps of the runs in which every commit succeeds.
MaxLockSteps == 5

-----------------------------------------------------------------------------
(* Values.                                                                 *)

\* PeerId: totally ordered identities.  The manager's own id lies strictly
\* between two remote ids, so both outcomes of the tie-break occur.
PeerIds == {1, 2, 3}
SelfId == 2

\* Option<AccountId>.
Accounts == {"v1"}
NoAccount == "none"

\* NetworkConfig.account_id of the node, when it has one.
OwnAccount == "v0"

\* ReasonForBan.
Reasons == {"Abusive"}
NoReason == "-"

\* PeerChainInfo.total_weight (the only field of the chain info the manager reads).
Weights == {1, 2}

\* PeerType.
Inbound == "Inbound"
Outbound == "Outbound"

\* PeerInfo { id, addr, account_id }; addr is Some(_) (TRUE) or None (FALSE).
PeerInfo(id, addr, account_id) ==
    [id |-> id, addr |-> addr, account_id |-> account_id]

\* FullPeerInfo { peer_info, chain_info }.
FullPeerInfo(peer_info, total_weight) ==
    [peer_info |-> peer_info, chain_info |-> [total_weight |-> total_weight]]

\* KnownPeerStatus.
Unknown == [kind |-> "Unknown", reason |-> NoReason, since |-> 0]
NotConnected == [kind |-> "NotConnected", reason |-> NoReason, since |-> 0]
Connected == [kind |-> "Connected", reason |-> NoReason, since |-> 0]
Banned(reason, since) == [kind |-> "Banned", reason |-> reason, since |-> since]

\* KnownPeerState::new(peer_info).
KnownPeerState_new(peer_info, now) ==
    [peer_info |-> peer_info, status |-> Unknown, last_seen |-> now]

\* HashMap: a function whose domain is the set of keys.
EmptyMap == [k \in {} |-> 0]
Insert(map, key, value) ==
    [k \in (DOMAIN map) \cup {key} |-> IF k = key THEN value ELSE map[k]]
Remove(map, key) ==
    [k \in (DOMAIN map) \ {key} |-> map[k]]

\* Vec: the orders in which the elements of a set can be listed, each once.
Perms(S) ==
    {f \in [1..Cardinality(S) -> S] :
        \A i, j \in 1..Cardinality(S) : f[i] = f[j] => i = j}

\* chrono: (a - b).to_std() is Err for a negative duration.
to_std_ok(a, b) == a >= b

-----------------------------------------------------------------------------
(* NetworkConfig.                                                          *)

peer_max_count == 2
ban_window == 1
peer_expiration_duration == 1
max_send_peers == 1

-----------------------------------------------------------------------------
(* PeerStore { store, peer_states }.  `store` is column COL_PEERS of the   *)
(* durable store; a commit either writes the batch (ok) or fails and       *)
(* writes nothing.                                                         *)

\* PeerStore::new with the bug of keeping the status recorded by the previous run.
PeerStore_new_keep_status(store, boot_nodes, now) ==
    LET boot_ids == {b.id : b \in boot_nodes}
        boot(id) == CHOOSE b \in boot_nodes : b.id = id
    IN  [store |-> store,
         peer_states |->
            [k \in (DOMAIN store) \cup boot_ids |->
                IF k \in DOMAIN store THEN store[k]
                ELSE KnownPeerState_new(boot(k), now)]]

\* PeerStore::new
PeerStore_new(store, boot_nodes, now) ==
    LET loaded == [k \in DOMAIN store |-> [store[k] EXCEPT !.status = NotConnected]]
        boot_ids == {b.id : b \in boot_nodes}
        boot(id) == CHOOSE b \in boot_nodes : b.id = id
    IN  [store |-> store,
         peer_states |->
            [k \in (DOMAIN loaded) \cup boot_ids |->
                IF k \in DOMAIN loaded THEN loaded[k]
                ELSE KnownPeerState_new(boot(k), now)]]

\* PeerStore::peer_connected
peer_connected(ps, full_info, now, ok) ==
    LET id == full_info.peer_info.id
        old == IF id \in DOMAIN ps.peer_states
               THEN ps.peer_states[id]
               ELSE KnownPeerState_new(full_info.peer_info, now)
        entry == [old EXCEPT !.last_seen = now, !.status = Connected]
    IN  [ps |-> [store |-> IF ok THEN Insert(ps.store, id, entry) ELSE ps.store,
                 peer_states |-> Insert(ps.peer_states, id, entry)],
         ok |-> ok]

\* peer_disconnected with the bug of undoing the in-memory change when the
\* commit fails.
peer_disconnected_rollback(ps, peer_id, now, ok) ==
    IF peer_id \in DOMAIN ps.peer_states /\ ok
    THEN LET entry == [ps.peer_states[peer_id] EXCEPT
                          !.last_seen = now, !.status = NotConnected]
         IN  [ps |-> [store |-> Insert(ps.store, peer_id, entry),
                      peer_states |-> Insert(ps.peer_states, peer_id, entry)],
              ok |-> TRUE]
    ELSE [ps |-> ps, ok |-> FALSE]

\* PeerStore::peer_disconnected
peer_disconnected(ps, peer_id, now, ok) ==
    IF peer_id \in DOMAIN ps.peer_states
    THEN LET entry == [ps.peer_states[peer_id] EXCEPT
                          !.last_seen = now, !.status = NotConnected]
         IN  [ps |-> [store |-> IF ok THEN Insert(ps.store, peer_id, entry) ELSE ps.store,
                      peer_states |-> Insert(ps.peer_states, peer_id, entry)],
              ok |-> ok]
    ELSE [ps |-> ps, ok |-> FALSE]

\* peer_ban with the bug of stamping the ban with the entry's previous last_seen
\* instead of the current time.
peer_ban_stale_time(ps, peer_id, ban_reason, now, ok) ==
    IF peer_id \in DOMAIN ps.peer_states
    THEN LET entry == [ps.peer_states[peer_id] EXCEPT
                          !.status = Banned(ban_reason, ps.peer_states[peer_id].last_seen),
                          !.last_seen = now]
         IN  [ps |-> [store |-> IF ok THEN Insert(ps.store, peer_id, entry) ELSE ps.store,
                      peer_states |-> Insert(ps.peer_states, peer_id, entry)],
              ok |-> ok]
    ELSE [ps |-> ps, ok |-> FALSE]

\* peer_ban with the bug of creating an entry for a peer the store does not know.
peer_ban_insert_absent(ps, peer_id, ban_reason, now, ok) ==
    LET old == IF peer_id \in DOMAIN ps.peer_states
               THEN ps.peer_states[peer_id]
               ELSE KnownPeerState_new(PeerInfo(peer_id, FALSE, NoAccount), now)
        entry == [old EXCEPT !.last_seen = now, !.status = Banned(ban_reason, now)]
    IN  [ps |-> [store |-> IF ok THEN Insert(ps.store, peer_id, entry) ELSE ps.store,
                 peer_states |-> Insert(ps.peer_states, peer_id, entry)],
         ok |-> ok]

\* PeerStore::peer_ban
peer_ban(ps, peer_id, ban_reason, now, ok) ==
    IF peer_id \in DOMAIN ps.peer_states
    THEN LET entry == [ps.peer_states[peer_id] EXCEPT
                          !.last_seen = now, !.status = Banned(ban_reason, now)]
         IN  [ps |-> [store |-> IF ok THEN Insert(ps.store, peer_id, entry) ELSE ps.store,
                      peer_states |-> Insert(ps.peer_states, peer_id, entry)],
              ok |-> ok]
    ELSE [ps |-> ps, ok |-> FALSE]

\* PeerStore::peer_unban
peer_unban(ps, peer_id, ok) ==
    IF peer_id \in DOMAIN ps.peer_states
    THEN LET entry == [ps.peer_states[peer_id] EXCEPT !.status = NotConnected]
         IN  [ps |-> [store |-> IF ok THEN Insert(ps.store, peer_id, entry) ELSE ps.store,
                      peer_states |-> Insert(ps.peer_states, peer_id, entry)],
              ok |-> ok]
    ELSE [ps |-> ps, ok |-> FALSE]

\* PeerStore::find_peers, for a filter that keeps the entries of the keys
\* `kept`: the lists it can return.  The entries are collected in the order of
\* the map's iteration, which is any order; with count = 0 that list is
\* returned, otherwise it is shuffled and its first `count` elements are.
find_peers(ps, kept, count) ==
    LET peers == {[i \in 1..Cardinality(kept) |-> ps.peer_states[o[i]].peer_info] :
                     o \in Perms(kept)}
        n == Cardinality(kept)
        take == IF count < n THEN count ELSE n
    IN  IF count = 0 THEN peers
        ELSE {SubSeq(list, 1, take) : list \in peers}

\* PeerStore::unconnected_peers: the lists it can return.
unconnected_peers(ps) ==
    LET kept == {k \in DOMAIN ps.peer_states :
                    \/ ps.peer_states[k].status = NotConnected
                    \/ ps.peer_states[k].status = Unknown}
    IN  find_peers(ps, kept, 0)

\* healthy_peers with the bug of keeping the banned peers too.
healthy_peers_with_banned(ps, max_count) ==
    find_peers(ps, DOMAIN ps.peer_states, max_count)

\* PeerStore::healthy_peers: the lists it can return.
healthy_peers(ps, max_count) ==
    LET kept == {k \in DOMAIN ps.peer_states : ps.peer_states[k].status.kind # "Banned"}
    IN  find_peers(ps, kept, max_count)

\* PeerStore::remove_expired: the peers it collects in to_remove.
expired_peers(ps, now) ==
    {k \in DOMAIN ps.peer_states :
        /\ ps.peer_states[k].status # Connected
        /\ now - ps.peer_states[k].last_seen > peer_expiration_duration}

\* remove_expired with the bug of leaving the durable records of the peers it
\* removes from memory.
remove_expired_memory_only(ps, now, ok) ==
    IF \E k \in DOMAIN ps.peer_states : ~to_std_ok(now, ps.peer_states[k].last_seen)
    THEN [ps |-> ps, ok |-> FALSE]
    ELSE LET to_remove == expired_peers(ps, now)
         IN  [ps |-> [store |-> ps.store,
                      peer_states |-> [k \in (DOMAIN ps.peer_states) \ to_remove |->
                                          ps.peer_states[k]]],
              ok |-> ok]

\* PeerStore::remove_expired
remove_expired(ps, now, ok) ==
    IF \E k \in DOMAIN ps.peer_states : ~to_std_ok(now, ps.peer_states[k].last_seen)
    THEN [ps |-> ps, ok |-> FALSE]
    ELSE LET to_remove == expired_peers(ps, now)
         IN  [ps |-> [store |-> IF ok
                                THEN [k \in (DOMAIN ps.store) \ to_remove |-> ps.store[k]]
                                ELSE ps.store,
                      peer_states |-> [k \in (DOMAIN ps.peer_states) \ to_remove |->
                                          ps.peer_states[k]]],
              ok |-> ok]

\* add_peers with the bug of replacing the entry of a peer that is already known.
add_peers_overwrite(ps, peers, now) ==
    LET ids == {p.id : p \in peers}
    IN  [store |-> ps.store,
         peer_states |->
            [k \in (DOMAIN ps.peer_states) \cup ids |->
                IF k \in ids THEN KnownPeerState_new(CHOOSE p \in peers : p.id = k, now)
                ELSE ps.peer_states[k]]]

\* PeerStore::add_peers
add_peers(ps, peers, now) ==
    LET new_ids == {p.id : p \in peers} \ DOMAIN ps.peer_states
    IN  [store |-> ps.store,
         peer_states |->
            [k \in (DOMAIN ps.peer_states) \cup new_ids |->
                IF k \in DOMAIN ps.peer_states THEN ps.peer_states[k]
                ELSE KnownPeerState_new(CHOOSE p \in peers : p.id = k, now)]]

-----------------------------------------------------------------------------
(* PeerManagerActor { config, peer_id, peer_store, outgoing_peers,         *)
(* active_peers, account_peers }.  active_peers maps a peer id to the pair *)
(* <<Addr<Peer>, FullPeerInfo>>.                                           *)

\* PeerManagerActor::new
PeerManagerActor_new(store, peer_id, account_id, boot_nodes, now) ==
    [peer_id |-> peer_id,
     account_id |-> account_id,
     max_send_peers |-> max_send_peers,
     peer_store |-> PeerStore_new(store, boot_nodes, now),
     active_peers |-> EmptyMap,
     outgoing_peers |-> {},
     account_peers |-> EmptyMap]

\* PeerManagerActor::num_active_peers
num_active_peers(m) == Cardinality(DOMAIN m.active_peers)

\* PeerManagerActor::register_peer; unwrap_or_error! returns from it when
\* peer_connected fails.
register_peer(m, peer_info, addr, now, ok) ==
    LET id == peer_info.peer_info.id
        account_id == peer_info.peer_info.account_id
        pc == peer_connected(m.peer_store, peer_info, now, ok)
        m1 == [m EXCEPT !.outgoing_peers = @ \ {id}, !.peer_store = pc.ps]
    IN  IF ~pc.ok THEN m1
        ELSE [m1 EXCEPT
                !.account_peers = IF account_id # NoAccount
                                  THEN Insert(@, account_id, id) ELSE @,
                !.active_peers = Insert(@, id, <<addr, peer_info>>)]

\* unregister_peer with the bug of leaving the peer in active_peers.
unregister_peer_keep_active(m, peer_id, now, ok) ==
    IF peer_id \in m.outgoing_peers
    THEN [m EXCEPT !.outgoing_peers = @ \ {peer_id}]
    ELSE [m EXCEPT !.peer_store = peer_disconnected(@, peer_id, now, ok).ps]

\* unregister_peer with the bug of returning for an unconsolidated peer without
\* removing it from outgoing_peers.
unregister_peer_keep_outgoing(m, peer_id, now, ok) ==
    IF peer_id \in m.outgoing_peers
    THEN m
    ELSE LET m1 == IF peer_id \in DOMAIN m.active_peers
                   THEN LET account_id == m.active_peers[peer_id][2].peer_info.account_id
                        IN  [m EXCEPT
                                !.account_peers = IF account_id # NoAccount
                                                  THEN Remove(@, account_id) ELSE @,
                                !.active_peers = Remove(@, peer_id)]
                   ELSE m
         IN  [m1 EXCEPT !.peer_store = peer_disconnected(@, peer_id, now, ok).ps]

\* PeerManagerActor::unregister_peer
unregister_peer(m, peer_id, now, ok) ==
    IF peer_id \in m.outgoing_peers
    THEN [m EXCEPT !.outgoing_peers = @ \ {peer_id}]
    ELSE LET m1 == IF peer_id \in DOMAIN m.active_peers
                   THEN LET account_id == m.active_peers[peer_id][2].peer_info.account_id
                        IN  [m EXCEPT
                                !.account_peers = IF account_id # NoAccount
                                                  THEN Remove(@, account_id) ELSE @,
                                !.active_peers = Remove(@, peer_id)]
                   ELSE m
         IN  [m1 EXCEPT !.peer_store = peer_disconnected(@, peer_id, now, ok).ps]

\* PeerManagerActor::ban_peer
ban_peer(m, peer_id, ban_reason, now, ok) ==
    [m EXCEPT !.active_peers = Remove(@, peer_id),
              !.peer_store = peer_ban(@, peer_id, ban_reason, now, ok).ps]

\* is_outbound_bootstrap_needed with the bug of dialling at the limit too.
is_outbound_bootstrap_needed_at_limit(m) ==
    Cardinality(DOMAIN m.active_peers) + Cardinality(m.outgoing_peers) <= peer_max_count

\* PeerManagerActor::is_outbound_bootstrap_needed
is_outbound_bootstrap_needed(m) ==
    Cardinality(DOMAIN m.active_peers) + Cardinality(m.outgoing_peers) < peer_max_count

\* most_weight_peers with the bug of returning one of the heaviest peers only.
most_weight_peers_single(m) ==
    LET infos == {m.active_peers[k][2] : k \in DOMAIN m.active_peers}
        heaviest == {x \in infos :
                        \A y \in infos : y.chain_info.total_weight <= x.chain_info.total_weight}
    IN  IF heaviest = {} THEN {} ELSE {CHOOSE x \in heaviest : TRUE}

\* PeerManagerActor::most_weight_peers
most_weight_peers(m) ==
    LET infos == {m.active_peers[k][2] : k \in DOMAIN m.active_peers}
    IN  {x \in infos : \A y \in infos : y.chain_info.total_weight <= x.chain_info.total_weight}

\* PeerManagerActor::sample_random_peer: the peers the random index can select
\* (none when there is no unconnected peer).
sample_random_peer(m) ==
    UNION {{list[i] : i \in 1..Len(list)} : list \in unconnected_peers(m.peer_store)}

\* broadcast_message with the bug of leaving one of the active peers out.
broadcast_message_skip_one(m, message) ==
    LET order == CHOOSE o \in Perms(DOMAIN m.active_peers) : TRUE
    IN  [i \in 1..(Len(order) - 1) |->
            [to |-> m.active_peers[order[i + 1]][1], message |-> message]]

\* PeerManagerActor::broadcast_message: the SendMessage requests it makes, one
\* for each value of active_peers, in the order of the map's iteration (one
\* order, whichever).
broadcast_message(m, message) ==
    LET order == CHOOSE o \in Perms(DOMAIN m.active_peers) : TRUE
    IN  [i \in 1..Len(order) |-> [to |-> m.active_peers[order[i]][1], message |-> message]]

\* PeerManagerActor::send_message_to_account
send_message_to_account(m, account_id, message) ==
    IF account_id \in DOMAIN m.account_peers
    THEN LET peer_id == m.account_peers[account_id]
         IN  IF peer_id \in DOMAIN m.active_peers
             THEN <<[to |-> m.active_peers[peer_id][1], message |-> message]>>
             ELSE <<>>
    ELSE <<>>

\* Handler<Consolidate>::handle with the bug of not checking active_peers first.
Consolidate_handle_no_active_check(m, msg, now, ok) ==
    IF /\ msg.peer_type = Inbound
       /\ msg.peer_info.id \in m.outgoing_peers
       /\ msg.peer_info.id > m.peer_id
    THEN [m |-> m, ret |-> FALSE]
    ELSE [m |-> register_peer(m, FullPeerInfo(msg.peer_info, msg.chain_info.total_weight),
                              msg.actor, now, ok),
          ret |-> TRUE]

\* The tie-break with the comparison turned round.
tie_break_rejects_lower(peer_id, self_id) == peer_id < self_id

\* Handler<Consolidate>::handle: the tie-break on a simultaneous connect
\* rejects the inbound connection of a peer with a higher id.
tie_break_rejects(peer_id, self_id) == peer_id > self_id

\* Handler<Consolidate>::handle with the bug of dropping the pending dial when
\* the tie-break rejects the inbound connection.
Consolidate_handle_reject_drops_outgoing(m, msg, now, ok) ==
    IF msg.peer_info.id \in DOMAIN m.active_peers
    THEN [m |-> m, ret |-> FALSE]
    ELSE IF /\ msg.peer_type = Inbound
            /\ msg.peer_info.id \in m.outgoing_peers
            /\ tie_break_rejects(msg.peer_info.id, m.peer_id)
         THEN [m |-> [m EXCEPT !.outgoing_peers = @ \ {msg.peer_info.id}],
               ret |-> FALSE]
         ELSE [m |-> register_peer(m, FullPeerInfo(msg.peer_info, msg.chain_info.total_weight),
                                   msg.actor, now, ok),
               ret |-> TRUE]

\* Handler<Consolidate>::handle.  msg = [peer_info, chain_info, actor, peer_type].
Consolidate_handle(m, msg, now, ok) ==
    IF msg.peer_info.id \in DOMAIN m.active_peers
    THEN [m |-> m, ret |-> FALSE]
    ELSE IF /\ msg.peer_type = Inbound
            /\ msg.peer_info.id \in m.outgoing_peers
            /\ tie_break_rejects(msg.peer_info.id, m.peer_id)
         THEN [m |-> m, ret |-> FALSE]
         ELSE [m |-> register_peer(m, FullPeerInfo(msg.peer_info, msg.chain_info.total_weight),
                                   msg.actor, now, ok),
               ret |-> TRUE]

\* Handler<Unregister>::handle
Unregister_handle(m, peer_id, now, ok) == unregister_peer(m, peer_id, now, ok)

\* Handler<Ban>::handle
Ban_handle(m, peer_id, ban_reason, now, ok) == ban_peer(m, peer_id, ban_reason, now, ok)

\* Handler<PeersRequest>::handle: the lists it can answer.
PeersRequest_handle(m) == healthy_peers(m.peer_store, m.max_send_peers)

\* Handler<PeersResponse>::handle with the bug of not filtering the own id out.
PeersResponse_handle_no_filter(m, peers, now) ==
    [m EXCEPT !.peer_store = add_peers(@, peers, now)]

\* Handler<PeersResponse>::handle
PeersResponse_handle(m, peers, now) ==
    [m EXCEPT !.peer_store = add_peers(@, {p \in peers : p.id # m.peer_id}, now)]

\* Handler<OutboundTcpConnect>::handle with the bug of reserving the peer in
\* outgoing_peers when the dial begins instead of when it has connected.
OutboundTcpConnect_handle_reserve_first(m, peer_info, connected) ==
    IF peer_info.addr
    THEN [m |-> [m EXCEPT !.outgoing_peers = @ \cup {peer_info.id}], connect |-> connected]
    ELSE [m |-> m, connect |-> FALSE]

\* Handler<OutboundTcpConnect>::handle, once the resolver has answered:
\* `connected` is Ok(Ok(stream)).  The result tells whether connect_peer ran.
OutboundTcpConnect_handle(m, peer_info, connected) ==
    IF peer_info.addr /\ connected
    THEN [m |-> [m EXCEPT !.outgoing_peers = @ \cup {peer_info.id}], connect |-> TRUE]
    ELSE [m |-> m, connect |-> FALSE]

\* The to_unban loop of monitor_peers: peer_unban on every peer of `set`.
RECURSIVE unban_all(_, _, _)
unban_all(ps, set, ok) ==
    IF set = {} THEN ps
    ELSE LET k == CHOOSE x \in set : TRUE
         IN  unban_all(peer_unban(ps, k, ok).ps, set \ {k}, ok)

\* monitor_peers: the banned peers whose ban interval cannot be converted.
unconvertible_bans(m, now) ==
    {k \in DOMAIN m.peer_store.peer_states :
        /\ m.peer_store.peer_states[k].status.kind = "Banned"
        /\ ~to_std_ok(now, m.peer_store.peer_states[k].status.since)}

\* monitor_peers: the peers it collects in to_unban.
to_unban(m, now) ==
    {k \in DOMAIN m.peer_store.peer_states :
        /\ m.peer_store.peer_states[k].status.kind = "Banned"
        /\ now - m.peer_store.peer_states[k].status.since > ban_window}

\* monitor_peers: the manager after the to_unban loop, in which the commits of
\* the peers of `unbanned` succeeded and the commit of the peer of `failed`
\* (at most one, the last one tried) failed.
after_unban(m, unbanned, failed) ==
    [m EXCEPT !.peer_store = unban_all(unban_all(@, unbanned, TRUE), failed, FALSE)]

\* PeerManagerActor::monitor_peers.  `pick` is the peer sample_random_peer
\* returned (used only when there is one); `ok` is the result of the commit of
\* remove_expired.  The result holds the manager, the OutboundTcpConnect
\* messages notified to itself, the messages sent to sessions, whether the run
\* got as far as the outbound bootstrap (lines 366-373), and whether the next
\* run was scheduled.
monitor_peers(m, now, unbanned, failed, pick, ok) ==
    IF unconvertible_bans(m, now) # {}
    THEN [m |-> m, notify |-> <<>>, sent |-> <<>>, bootstrap |-> FALSE, rescheduled |-> FALSE]
    ELSE
    LET m1 == after_unban(m, unbanned, failed)
    IN  IF failed # {}
        THEN [m |-> m1, notify |-> <<>>, sent |-> <<>>, bootstrap |-> FALSE,
              rescheduled |-> FALSE]
        ELSE
        LET needed == is_outbound_bootstrap_needed(m1)
            found == sample_random_peer(m1) # {}
            notify == IF needed /\ found THEN <<pick>> ELSE <<>>
            sent == IF needed /\ ~found THEN broadcast_message(m1, "PeersRequest") ELSE <<>>
            re == remove_expired(m1.peer_store, now, ok)
        IN  [m |-> [m1 EXCEPT !.peer_store = re.ps],
             notify |-> notify, sent |-> sent, bootstrap |-> TRUE, rescheduled |-> re.ok]

\* Handler<NetworkRequests>::handle with the bug of broadcasting the header
\* before the approval is dispatched.
NetworkRequests_handle_header_first(m, req, now, ok) ==
    CASE req.kind = "FetchInfo" ->
            [m |-> m, sent |-> <<>>,
             response |-> [kind |-> "Info",
                           num_active_peers |-> num_active_peers(m),
                           peer_max_count |-> peer_max_count,
                           most_weight_peers |-> most_weight_peers(m)]]
      [] req.kind = "Block" ->
            [m |-> m, sent |-> broadcast_message(m, "Block"),
             response |-> [kind |-> "NoResponse"]]
      [] req.kind = "BlockHeaderAnnounce" ->
            [m |-> m,
             sent |-> broadcast_message(m, "BlockHeaderAnnounce")
                      \o (IF req.approval /\ m.account_id # NoAccount
                          THEN send_message_to_account(m, req.target, "BlockApproval")
                          ELSE <<>>),
             response |-> [kind |-> "NoResponse"]]
      [] req.kind = "BlockRequest" ->
            [m |-> m,
             sent |-> IF req.peer_id \in DOMAIN m.active_peers
                      THEN <<[to |-> m.active_peers[req.peer_id][1], message |-> "BlockRequest"]>>
                      ELSE <<>>,
             response |-> [kind |-> "NoResponse"]]
      [] req.kind = "BlockHeadersRequest" ->
            [m |-> m,
             sent |-> IF req.peer_id \in DOMAIN m.active_peers
                      THEN <<[to |-> m.active_peers[req.peer_id][1],
                              message |-> "BlockHeadersRequest"]>>
                      ELSE <<>>,
             response |-> [kind |-> "NoResponse"]]
      [] req.kind = "StateRequest" ->
            [m |-> m, sent |-> <<>>, response |-> [kind |-> "NoResponse"]]
      [] req.kind = "BanPeer" ->
            [m |-> ban_peer(m, req.peer_id, req.ban_reason, now, ok), sent |-> <<>>,
             response |-> [kind |-> "NoResponse"]]

\* Handler<NetworkRequests>::handle.  req = [kind, peer_id, ban_reason, approval,
\* target]; the result holds the manager, the response and the messages sent.
NetworkRequests_handle(m, req, now, ok) ==
    CASE req.kind = "FetchInfo" ->
            [m |-> m, sent |-> <<>>,
             response |-> [kind |-> "Info",
                           num_active_peers |-> num_active_peers(m),
                           peer_max_count |-> peer_max_count,
                           most_weight_peers |-> most_weight_peers(m)]]
      [] req.kind = "Block" ->
            [m |-> m, sent |-> broadcast_message(m, "Block"),
             response |-> [kind |-> "NoResponse"]]
      [] req.kind = "BlockHeaderAnnounce" ->
            [m |-> m,
             sent |-> (IF req.approval /\ m.account_id # NoAccount
                       THEN send_message_to_account(m, req.target, "BlockApproval")
                       ELSE <<>>)
                      \o broadcast_message(m, "BlockHeaderAnnounce"),
             response |-> [kind |-> "NoResponse"]]
      [] req.kind = "BlockRequest" ->
            [m |-> m,
             sent |-> IF req.peer_id \in DOMAIN m.active_peers
                      THEN <<[to |-> m.active_peers[req.peer_id][1], message |-> "BlockRequest"]>>
                      ELSE <<>>,
             response |-> [kind |-> "NoResponse"]]
      [] req.kind = "BlockHeadersRequest" ->
            [m |-> m,
             sent |-> IF req.peer_id \in DOMAIN m.active_peers
                      THEN <<[to |-> m.active_peers[req.peer_id][1],
                              message |-> "BlockHeadersRequest"]>>
                      ELSE <<>>,
             response |-> [kind |-> "NoResponse"]]
      [] req.kind = "StateRequest" ->
            [m |-> m, sent |-> <<>>, response |-> [kind |-> "NoResponse"]]
      [] req.kind = "BanPeer" ->
            [m |-> ban_peer(m, req.peer_id, req.ban_reason, now, ok), sent |-> <<>>,
             response |-> [kind |-> "NoResponse"]]

-----------------------------------------------------------------------------
(* One manager and its environment.                                        *)

VARIABLES
    manager,            \* the PeerManagerActor
    now,                \* Utc::now()
    mailbox,            \* OutboundTcpConnect messages the manager notified to itself
    monitor_scheduled,  \* a run of monitor_peers is scheduled (started / run_later)
    peers,              \* the Peer actors created by connect_peer, by address
    last,               \* the message handled last, with what the handler saw and returned
    steps,              \* number of steps taken
    pair_mgr,           \* SpecPair: the PeerManagerActor of each of the two nodes
    pair_peers,         \* SpecPair: the four Peer actors of the two connections
    pair_log            \* SpecPair: the messages each manager handled, in order

single_vars == <<manager, mailbox, monitor_scheduled, peers, last, steps>>
pair_vars == <<pair_mgr, pair_peers, pair_log>>
vars == <<manager, now, mailbox, monitor_scheduled, peers, last, steps,
          pair_mgr, pair_peers, pair_log>>

\* NetworkConfig.boot_nodes of the run.
BootNodeSets ==
    {{PeerInfo(SelfId, TRUE, NoAccount), PeerInfo(3, TRUE, NoAccount)}}

\* PeerInfo lists a PeersResponse can carry.
GossipLists ==
    {{PeerInfo(1, TRUE, NoAccount), PeerInfo(3, FALSE, NoAccount)},
     {PeerInfo(SelfId, TRUE, NoAccount), PeerInfo(3, FALSE, NoAccount)}}

NoPeer == 0
NoActor == 0

\* What `last` records of a handled message: its kind and fields, the handler's
\* result, the result of the durable commit, the messages sent to sessions, the
\* response, the request of the client layer, and what the handler found.
Handled(kind, peer_id, actor, peer_type, reason, ret, ok, m) ==
    [kind |-> kind, peer_id |-> peer_id, actor |-> actor, peer_type |-> peer_type,
     reason |-> reason, ret |-> ret, ok |-> ok,
     sent |-> <<>>, response |-> [kind |-> "-"], request |-> [kind |-> "-"],
     was_active |-> peer_id \in DOMAIN m.active_peers,
     was_outgoing |-> peer_id \in m.outgoing_peers,
     was_known |-> peer_id \in DOMAIN m.peer_store.peer_states]

\* PeerManagerActor::connect_peer: Peer::create with the peer type and, for an
\* outbound connection, the peer dialled.
connect_peer(ps, peer_type, peer_id) ==
    Append(ps, [peer_type |-> peer_type, expected |-> peer_id,
                peer_id |-> NoPeer, status |-> "Handshake", admitted |-> FALSE])

Init ==
    /\ now = 0
    /\ \E boot_nodes \in BootNodeSets :
          manager = PeerManagerActor_new(EmptyMap, SelfId, NoAccount, boot_nodes, 0)
    /\ mailbox = <<>>
    /\ monitor_scheduled = TRUE
    /\ peers = <<>>
    /\ steps = 0
    /\ pair_mgr = EmptyMap
    /\ pair_peers = EmptyMap
    /\ pair_log = EmptyMap
    /\ last = Handled("new", NoPeer, NoActor, "-", NoReason, FALSE, TRUE,
                      PeerManagerActor_new(EmptyMap, SelfId, NoAccount, {}, 0))

\* Utc::now() moves on.
ClockForward ==
    /\ now < MaxTime
    /\ now' = now + 1
    /\ last' = Handled("ClockForward", NoPeer, NoActor, "-", NoReason, FALSE, TRUE, manager)
    /\ UNCHANGED <<manager, mailbox, monitor_scheduled, peers>>

\* The wall clock is set back.
ClockBackward ==
    /\ now > 0
    /\ now' = now - 1
    /\ last' = Handled("ClockBackward", NoPeer, NoActor, "-", NoReason, FALSE, TRUE, manager)
    /\ UNCHANGED <<manager, mailbox, monitor_scheduled, peers>>

\* A scheduled run of monitor_peers.
MonitorPeers ==
    /\ monitor_scheduled
    /\ Len(mailbox) < MaxMailbox
    /\ \E unbanned \in SUBSET to_unban(manager, now) :
       \E failed \in SUBSET (to_unban(manager, now) \ unbanned) :
       \E ok \in BOOLEAN :
          /\ Cardinality(failed) <= 1
          /\ failed = {} => unbanned = to_unban(manager, now)
          /\ LET cand == sample_random_peer(after_unban(manager, unbanned, failed))
             IN  \E pick \in (IF cand = {} THEN {PeerInfo(NoPeer, FALSE, NoAccount)} ELSE cand) :
                    LET r == monitor_peers(manager, now, unbanned, failed, pick, ok)
                    IN  /\ manager' = r.m
                        /\ mailbox' = mailbox \o r.notify
                        /\ monitor_scheduled' = r.rescheduled
                        /\ last' = [Handled("monitor_peers",
                                            IF r.notify = <<>> THEN NoPeer ELSE pick.id,
                                            NoActor, "-", NoReason, r.rescheduled, ok, manager)
                                    EXCEPT !.sent = r.sent,
                                           !.response = [kind |-> "monitor_peers",
                                                         unban_failed |-> failed # {},
                                                         bootstrap |-> r.bootstrap]]
    /\ UNCHANGED <<now, peers>>

\* Handler<InboundTcpConnect>::handle
HandleInboundTcpConnect ==
    /\ Len(peers) < MaxSessions
    /\ peers' = connect_peer(peers, Inbound, NoPeer)
    /\ last' = Handled("InboundTcpConnect", NoPeer, Len(peers) + 1, Inbound, NoReason,
                       FALSE, TRUE, manager)
    /\ UNCHANGED <<manager, now, mailbox, monitor_scheduled>>

\* Handler<OutboundTcpConnect>::handle, with the answer of the resolver.
HandleOutboundTcpConnect ==
    /\ mailbox # <<>>
    /\ \E connected \in BOOLEAN :
          LET peer_info == Head(mailbox)
              r == OutboundTcpConnect_handle(manager, peer_info, connected)
          IN  /\ r.connect => Len(peers) < MaxSessions
              /\ manager' = r.m
              /\ peers' = IF r.connect THEN connect_peer(peers, Outbound, peer_info.id)
                          ELSE peers
              /\ last' = Handled("OutboundTcpConnect", peer_info.id,
                                 IF r.connect THEN Len(peers) + 1 ELSE NoActor,
                                 Outbound, NoReason, r.connect, TRUE, manager)
    /\ mailbox' = Tail(mailbox)
    /\ UNCHANGED <<now, monitor_scheduled>>

\* The account a peer declares in its handshake: the two remote peers claim the
\* same validator account, a peer with the manager's own id claims none.
AccountOf(id) == IF id = SelfId THEN NoAccount ELSE "v1"

\* Requests of the client layer (NetworkRequests).
Requests ==
    {[kind |-> k, peer_id |-> NoPeer, ban_reason |-> NoReason, approval |-> FALSE,
      target |-> NoAccount] : k \in {"FetchInfo", "Block", "StateRequest"}}
    \cup {[kind |-> "BlockHeaderAnnounce", peer_id |-> NoPeer, ban_reason |-> NoReason,
           approval |-> a, target |-> t] : a \in BOOLEAN, t \in Accounts}
    \cup {[kind |-> k, peer_id |-> p, ban_reason |-> NoReason, approval |-> FALSE,
           target |-> NoAccount] : k \in {"BlockRequest", "BlockHeadersRequest"}, p \in PeerIds}
    \cup {[kind |-> "BanPeer", peer_id |-> p, ban_reason |-> r, approval |-> FALSE,
           target |-> NoAccount] : p \in PeerIds, r \in Reasons}

\* Peer: the session finished its handshake and sent Consolidate; the manager
\* handles it (Handler<Consolidate>::handle) and the session takes the answer:
\* Ready when admitted, closed with an Unregister on its way when rejected.
\* An outbound session consolidates as the peer it dialled.
HandleConsolidate ==
    \E a \in 1..Len(peers) :
       /\ peers[a].status = "Handshake"
       /\ \E id \in PeerIds, total_weight \in Weights, ok \in BOOLEAN :
             /\ peers[a].peer_type = Outbound => id = peers[a].expected
             /\ LET account_id == AccountOf(id) IN
                LET msg == [peer_info |-> PeerInfo(id, TRUE, account_id),
                            chain_info |-> [total_weight |-> total_weight],
                            actor |-> a, peer_type |-> peers[a].peer_type]
                    r == Consolidate_handle(manager, msg, now, ok)
                IN  /\ manager' = r.m
                    /\ peers' = [peers EXCEPT
                                    ![a].peer_id = id,
                                    ![a].status = IF r.ret THEN "Ready" ELSE "Unregistering",
                                    ![a].admitted = r.ret]
                    /\ last' = [Handled("Consolidate", id, a, peers[a].peer_type, NoReason,
                                        r.ret, ok, manager)
                                EXCEPT !.response = [kind |-> "Consolidate",
                                                     account_id |-> account_id]]
       /\ UNCHANGED <<now, mailbox, monitor_scheduled>>

\* Peer: the handshake of a session timed out (or failed).  An outbound session
\* knows the peer it dialled and emits Unregister; an inbound one just closes.
PeerHandshakeTimeout ==
    \E a \in 1..Len(peers) :
       /\ peers[a].status = "Handshake"
       /\ peers' = IF peers[a].peer_type = Outbound
                   THEN [peers EXCEPT ![a].peer_id = peers[a].expected,
                                      ![a].status = "Unregistering"]
                   ELSE [peers EXCEPT ![a].status = "Closed"]
       /\ last' = Handled("PeerHandshakeTimeout", peers[a].expected, a, peers[a].peer_type,
                          NoReason, FALSE, TRUE, manager)
       /\ UNCHANGED <<manager, now, mailbox, monitor_scheduled>>

\* Peer: a Ready session ends (peer-initiated close or I/O error) and emits
\* Unregister.
PeerClose ==
    \E a \in 1..Len(peers) :
       /\ peers[a].status = "Ready"
       /\ peers' = [peers EXCEPT ![a].status = "Unregistering"]
       /\ last' = Handled("PeerClose", peers[a].peer_id, a, peers[a].peer_type,
                          NoReason, FALSE, TRUE, manager)
       /\ UNCHANGED <<manager, now, mailbox, monitor_scheduled>>

\* Handler<Unregister>::handle, for the Unregister of a closed session.
HandleUnregister ==
    \E a \in 1..Len(peers), ok \in BOOLEAN :
       /\ peers[a].status = "Unregistering"
       /\ manager' = Unregister_handle(manager, peers[a].peer_id, now, ok)
       /\ peers' = [peers EXCEPT ![a].status = "Closed"]
       /\ last' = Handled("Unregister", peers[a].peer_id, a, peers[a].peer_type,
                          NoReason, FALSE, ok, manager)
       /\ UNCHANGED <<now, mailbox, monitor_scheduled>>

\* Handler<Ban>::handle: a Ready session reports its peer.
HandleBan ==
    \E a \in 1..Len(peers), ban_reason \in Reasons, ok \in BOOLEAN :
       /\ peers[a].status = "Ready"
       /\ manager' = Ban_handle(manager, peers[a].peer_id, ban_reason, now, ok)
       /\ last' = Handled("Ban", peers[a].peer_id, a, peers[a].peer_type,
                          ban_reason, FALSE, ok, manager)
       /\ UNCHANGED <<now, mailbox, monitor_scheduled, peers>>

\* Handler<PeersRequest>::handle
HandlePeersRequest ==
    \E list \in PeersRequest_handle(manager) :
       /\ last' = [Handled("PeersRequest", NoPeer, NoActor, "-", NoReason, FALSE, TRUE, manager)
                   EXCEPT !.response = [kind |-> "PeerList", peers |-> list]]
       /\ UNCHANGED <<manager, now, mailbox, monitor_scheduled, peers>>

\* Handler<PeersResponse>::handle
HandlePeersResponse ==
    \E list \in GossipLists :
       /\ manager' = PeersResponse_handle(manager, list, now)
       /\ last' = [Handled("PeersResponse", NoPeer, NoActor, "-", NoReason, FALSE, TRUE, manager)
                   EXCEPT !.response = [kind |-> "PeersResponse", peers |-> list]]
       /\ UNCHANGED <<now, mailbox, monitor_scheduled, peers>>

\* Handler<NetworkRequests>::handle for BanPeer, the request that changes the
\* manager.
HandleBanPeer ==
    \E req \in Requests, ok \in BOOLEAN :
       /\ req.kind = "BanPeer"
       /\ LET r == NetworkRequests_handle(manager, req, now, ok)
          IN  /\ manager' = r.m
              /\ last' = [Handled(req.kind, req.peer_id, NoActor, "-", req.ban_reason,
                                  FALSE, ok, manager)
                          EXCEPT !.sent = r.sent, !.response = r.response]
       /\ UNCHANGED <<now, mailbox, monitor_scheduled, peers>>

\* Handler<NetworkRequests>::handle for the requests that leave the manager as
\* it is.
HandleRequest ==
    \E req \in Requests :
       /\ req.kind # "BanPeer"
       /\ LET r == NetworkRequests_handle(manager, req, now, TRUE)
          IN  /\ manager' = r.m
              /\ last' = [Handled(req.kind, req.peer_id, NoActor, "-", NoReason,
                                  FALSE, TRUE, manager)
                          EXCEPT !.sent = r.sent, !.response = r.response, !.request = req]
       /\ UNCHANGED <<now, mailbox, monitor_scheduled, peers>>

\* The process stops and starts again: PeerManagerActor::new on the same
\* durable store, then started().  The sessions and the mailbox of the previous
\* run are gone.
Restart ==
    /\ \E boot_nodes \in BootNodeSets :
          manager' = PeerManagerActor_new(manager.peer_store.store, SelfId, NoAccount,
                                          boot_nodes, now)
    /\ mailbox' = <<>>
    /\ monitor_scheduled' = TRUE
    /\ peers' = <<>>
    /\ last' = Handled("Restart", NoPeer, NoActor, "-", NoReason, FALSE, TRUE, manager)
    /\ UNCHANGED now

\* One step of the run.
Step == steps < MaxSteps /\ steps' = steps + 1 /\ UNCHANGED pair_vars

Next ==
    \/ Step /\ ClockForward
    \/ Step /\ ClockBackward
    \/ Step /\ MonitorPeers
    \/ Step /\ HandleInboundTcpConnect
    \/ Step /\ HandleOutboundTcpConnect
    \/ Step /\ HandleConsolidate
    \/ Step /\ PeerHandshakeTimeout
    \/ Step /\ PeerClose
    \/ Step /\ HandleUnregister
    \/ Step /\ HandleBan
    \/ Step /\ HandlePeersResponse
    \/ Step /\ HandleBanPeer
    \/ Step /\ Restart

Spec == Init /\ [][Next]_vars

-----------------------------------------------------------------------------
(* The control loop on its own: the manager with the client layer's bans,  *)
(* the clock and its own dials, and no peer session.  Every behaviour is a *)
(* behaviour of the manager; the runs are longer than those of Spec.       *)

SweepStep == steps < MaxSweepSteps /\ steps' = steps + 1 /\ UNCHANGED pair_vars

NextSweep ==
    \/ SweepStep /\ ClockForward
    \/ SweepStep /\ ClockBackward
    \/ SweepStep /\ MonitorPeers
    \/ SweepStep /\ HandleOutboundTcpConnect
    \/ SweepStep /\ HandleBanPeer

SpecSweep == Init /\ [][NextSweep]_vars

-----------------------------------------------------------------------------
(* Connections being set up and ended: inbound connections and the dials  *)
(* of the control loop, the Consolidate of their sessions, the end of a    *)
(* Ready session and its Unregister, and nothing else.  Every behaviour is *)
(* a behaviour of the manager.                                             *)

ConnectStep == steps < MaxConnectSteps /\ steps' = steps + 1 /\ UNCHANGED pair_vars

NextConnect ==
    \/ ConnectStep /\ MonitorPeers
    \/ ConnectStep /\ HandleInboundTcpConnect
    \/ ConnectStep /\ HandleOutboundTcpConnect
    \/ ConnectStep /\ HandleConsolidate
    \/ ConnectStep /\ PeerClose
    \/ ConnectStep /\ HandleUnregister

SpecConnect == Init /\ [][NextConnect]_vars

-----------------------------------------------------------------------------
(* The manager under the requests of the client layer: inbound sessions    *)
(* come and go, peers are banned, gossip arrives, and the client layer and *)
(* the peers ask.  The node has an account or has none, and its           *)
(* max_send_peers is a positive number or zero.                            *)

InitQuery ==
    /\ now = 0
    /\ \E boot_nodes \in BootNodeSets, account_id \in {NoAccount, OwnAccount},
          send_peers \in {0, max_send_peers} :
          manager = [PeerManagerActor_new(EmptyMap, SelfId, account_id, boot_nodes, 0)
                     EXCEPT !.max_send_peers = send_peers]
    /\ mailbox = <<>>
    /\ monitor_scheduled = TRUE
    /\ peers = <<>>
    /\ steps = 0
    /\ pair_mgr = EmptyMap
    /\ pair_peers = EmptyMap
    /\ pair_log = EmptyMap
    /\ last = Handled("new", NoPeer, NoActor, "-", NoReason, FALSE, TRUE,
                      PeerManagerActor_new(EmptyMap, SelfId, NoAccount, {}, 0))

QueryStep == steps < MaxQuerySteps /\ steps' = steps + 1 /\ UNCHANGED pair_vars

NextQuery ==
    \/ QueryStep /\ HandleInboundTcpConnect
    \/ QueryStep /\ HandleConsolidate
    \/ QueryStep /\ PeerClose
    \/ QueryStep /\ HandleUnregister
    \/ QueryStep /\ HandleBanPeer
    \/ QueryStep /\ HandlePeersResponse
    \/ QueryStep /\ HandlePeersRequest
    \/ QueryStep /\ HandleRequest

SpecQuery == InitQuery /\ [][NextQuery]_vars

-----------------------------------------------------------------------------
(* Expiry at work: the clock, the control loop and its dials, the sessions *)
(* of those dials failing their handshake, gossip, and bans by the client *)
(* layer.                                                                  *)

ExpireStep == steps < MaxExpireSteps /\ steps' = steps + 1 /\ UNCHANGED pair_vars

NextExpire ==
    \/ ExpireStep /\ ClockForward
    \/ ExpireStep /\ ClockBackward
    \/ ExpireStep /\ MonitorPeers
    \/ ExpireStep /\ HandleOutboundTcpConnect
    \/ ExpireStep /\ PeerHandshakeTimeout
    \/ ExpireStep /\ HandleUnregister
    \/ ExpireStep /\ HandlePeersResponse
    \/ ExpireStep /\ HandleBanPeer

SpecExpire == Init /\ [][NextExpire]_vars

-----------------------------------------------------------------------------
(* The runs in which no durable commit fails: the manager with its         *)
(* sessions, bans, gossip, the control loop, and restarts on the same      *)
(* durable store.                                                          *)

LockStep == steps < MaxLockSteps /\ steps' = steps + 1 /\ UNCHANGED pair_vars

NextLock ==
    \/ LockStep /\ ClockForward
    \/ LockStep /\ MonitorPeers /\ last'.ok /\ ~last'.response.unban_failed
    \/ LockStep /\ HandleInboundTcpConnect
    \/ LockStep /\ HandleOutboundTcpConnect
    \/ LockStep /\ HandleConsolidate /\ last'.ok
    \/ LockStep /\ PeerClose
    \/ LockStep /\ HandleUnregister /\ last'.ok
    \/ LockStep /\ HandleBanPeer /\ last'.ok
    \/ LockStep /\ HandlePeersResponse
    \/ LockStep /\ Restart

SpecLock == Init /\ [][NextLock]_vars

-----------------------------------------------------------------------------
(* The manager and its sessions with fair scheduling, at a fixed time.  The *)
(* events that start something (a tick, an inbound connection) are bounded *)
(* in number; the steps that follow from them are not, and the manager's   *)
(* mailbox is served: the Consolidate or the handshake timeout of a        *)
(* session in handshake eventually happens, and the Unregister a session   *)
(* emitted is eventually handled.                                          *)

LiveStart == steps < MaxLiveSteps /\ steps' = steps + 1 /\ UNCHANGED pair_vars
LiveStep == UNCHANGED <<steps, pair_mgr, pair_peers, pair_log>>

NextLive ==
    \/ LiveStart /\ MonitorPeers
    \/ LiveStart /\ HandleInboundTcpConnect
    \/ LiveStep /\ HandleOutboundTcpConnect
    \/ LiveStep /\ HandleConsolidate
    \/ LiveStep /\ PeerHandshakeTimeout
    \/ LiveStep /\ HandleUnregister

SpecLive ==
    /\ Init
    /\ [][NextLive]_vars
    /\ WF_vars(LiveStep /\ (HandleConsolidate \/ PeerHandshakeTimeout))
    /\ WF_vars(LiveStep /\ HandleUnregister)

-----------------------------------------------------------------------------
(* Two managers that dial each other at the same time.  Connection "X" is  *)
(* dialled by the node with the lower id, connection "Y" by the other; each *)
(* connection has a Peer actor on either node.  Each manager has handled   *)
(* its OutboundTcpConnect, all four sessions have exchanged handshakes and *)
(* their Consolidate messages are on their way.  No durable commit fails.  *)

NodeA == 1
NodeB == 3
PairNodes == {NodeA, NodeB}
OtherNode(n) == IF n = NodeA THEN NodeB ELSE NodeA

\* The Peer actors: connect_peer(Outbound, Some(peer)) on the dialling node,
\* connect_peer(Inbound, None) on the listening one.
PairSessions ==
    [XA |-> [node |-> NodeA, peer_type |-> Outbound, conn |-> "X", other |-> "XB"],
     XB |-> [node |-> NodeB, peer_type |-> Inbound, conn |-> "X", other |-> "XA"],
     YB |-> [node |-> NodeB, peer_type |-> Outbound, conn |-> "Y", other |-> "YA"],
     YA |-> [node |-> NodeA, peer_type |-> Inbound, conn |-> "Y", other |-> "YB"]]

\* The manager of node n once it has dialled the other node, its boot node.
DialledManager(n) ==
    LET boot == PeerInfo(OtherNode(n), TRUE, NoAccount)
    IN  OutboundTcpConnect_handle(
            PeerManagerActor_new(EmptyMap, n, NoAccount, {boot}, 0), boot, TRUE).m

InitPair ==
    /\ now = 0
    /\ manager = PeerManagerActor_new(EmptyMap, SelfId, NoAccount, {}, 0)
    /\ mailbox = <<>>
    /\ monitor_scheduled = FALSE
    /\ peers = <<>>
    /\ steps = 0
    /\ last = Handled("new", NoPeer, NoActor, "-", NoReason, FALSE, TRUE,
                      PeerManagerActor_new(EmptyMap, SelfId, NoAccount, {}, 0))
    /\ pair_mgr = [n \in PairNodes |-> DialledManager(n)]
    /\ pair_peers = [a \in DOMAIN PairSessions |-> "Handshake"]
    /\ pair_log = [n \in PairNodes |-> <<>>]

\* The manager of the session's node handles its Consolidate; the session is
\* Ready when admitted, and closes with an Unregister on its way when rejected.
PairConsolidate(a) ==
    LET n == PairSessions[a].node
        msg == [peer_info |-> PeerInfo(OtherNode(n), TRUE, NoAccount),
                chain_info |-> [total_weight |-> 1],
                actor |-> a, peer_type |-> PairSessions[a].peer_type]
        r == Consolidate_handle(pair_mgr[n], msg, now, TRUE)
    IN  /\ pair_peers[a] = "Handshake"
        /\ pair_mgr' = [pair_mgr EXCEPT ![n] = r.m]
        /\ pair_peers' = [pair_peers EXCEPT ![a] = IF r.ret THEN "Ready" ELSE "Unregistering"]
        /\ pair_log' = [pair_log EXCEPT
                           ![n] = Append(@, [kind |-> "Consolidate", actor |-> a, ret |-> r.ret])]
        /\ UNCHANGED <<now, single_vars>>

\* A Ready session finds its connection closed by the other end and ends,
\* emitting Unregister.
PairPeerClose(a) ==
    /\ pair_peers[a] = "Ready"
    /\ pair_peers[PairSessions[a].other] \in {"Unregistering", "Closed"}
    /\ pair_peers' = [pair_peers EXCEPT ![a] = "Unregistering"]
    /\ UNCHANGED <<now, single_vars, pair_mgr, pair_log>>

\* The manager of the session's node handles the Unregister of the closed session.
PairUnregister(a) ==
    LET n == PairSessions[a].node
    IN  /\ pair_peers[a] = "Unregistering"
        /\ pair_mgr' = [pair_mgr EXCEPT ![n] = Unregister_handle(@, OtherNode(n), now, TRUE)]
        /\ pair_peers' = [pair_peers EXCEPT ![a] = "Closed"]
        /\ pair_log' = [pair_log EXCEPT
                           ![n] = Append(@, [kind |-> "Unregister", actor |-> a, ret |-> FALSE])]
        /\ UNCHANGED <<now, single_vars>>

NextPair ==
    \/ \E a \in DOMAIN PairSessions : PairConsolidate(a)
    \/ \E a \in DOMAIN PairSessions : PairPeerClose(a)
    \/ \E a \in DOMAIN PairSessions : PairUnregister(a)

SpecPair == InitPair /\ [][NextPair]_vars

\* Every message has been handled and no session has a closed connection left
\* to notice.
PairQuiescent ==
    \A a \in DOMAIN PairSessions :
       /\ pair_peers[a] \in {"Ready", "Closed"}
       /\ pair_peers[a] = "Ready" => pair_peers[PairSessions[a].other] = "Ready"

\* C6 (as claimed), checked under SpecPair: once all messages are handled,
\* exactly one of the two connections is kept by both endpoints, it is the one
\* dialled by the node with the lower id, and each manager has the other node
\* in its active set.
C6_OneConnectionSurvives ==
    PairQuiescent
       => /\ pair_peers["XA"] = "Ready" /\ pair_peers["XB"] = "Ready"
          /\ pair_peers["YA"] = "Closed" /\ pair_peers["YB"] = "Closed"
          /\ NodeB \in DOMAIN pair_mgr[NodeA].active_peers
          /\ NodeA \in DOMAIN pair_mgr[NodeB].active_peers

\* The messages the manager of node n has handled, as a set.
PairHandled(n) == {pair_log[n][i] : i \in 1..Len(pair_log[n])}

\* C7 (as claimed), checked under SpecPair on the node with the lower id L,
\* which dials R > L: the inbound Consolidate of R is rejected and the outbound
\* one accepted, and once the manager has handled both and the Unregister of
\* the rejected inbound session (and nothing else), in whichever order, R is
\* in the active set and not in the outgoing set.
C7_LocalViewOfRace ==
    /\ \A i \in 1..Len(pair_log[NodeA]) :
          pair_log[NodeA][i].kind = "Consolidate"
             => (pair_log[NodeA][i].ret <=> pair_log[NodeA][i].actor = "XA")
    /\ (/\ Len(pair_log[NodeA]) = 3
        /\ PairHandled(NodeA) = {[kind |-> "Consolidate", actor |-> "YA", ret |-> FALSE],
                                 [kind |-> "Consolidate", actor |-> "XA", ret |-> TRUE],
                                 [kind |-> "Unregister", actor |-> "YA", ret |-> FALSE]})
          => /\ NodeB \in DOMAIN pair_mgr[NodeA].active_peers
             /\ NodeB \notin pair_mgr[NodeA].outgoing_peers

-----------------------------------------------------------------------------
(* Properties of the manager, checked under Spec.  `last` describes the    *)
(* message handled in the step that led to the state, so a state predicate *)
(* on `last` speaks of the state right after that handler.                 *)

StatusOf(p) == manager.peer_store.peer_states[p].status

\* C1: a Consolidate whose peer id is already a key of the active set is
\* answered false, whatever its peer type, and the active-set entry of that id
\* (session handle and FullPeerInfo) is the same after the handler as before.
C1_ActivePeerNotReadmitted ==
    [][(last'.kind = "Consolidate" /\ last'.peer_id \in DOMAIN manager.active_peers)
        => /\ ~last'.ret
           /\ last'.peer_id \in DOMAIN manager'.active_peers
           /\ manager'.active_peers[last'.peer_id] = manager.active_peers[last'.peer_id]]_vars

\* C1 witness: a Consolidate from a second session was handled for a peer that
\* was active, bound to another session.
C1_Witness ==
    /\ last.kind = "Consolidate"
    /\ last.was_active
    /\ last.peer_id \in DOMAIN manager.active_peers
    /\ manager.active_peers[last.peer_id][1] # last.actor

\* C2 (as claimed): no peer id is both in the active set and in the outgoing set.
C2_ActiveOutgoingDisjoint ==
    (DOMAIN manager.active_peers) \cap manager.outgoing_peers = {}

\* C3: every peer id of the active set has an entry in the peer store whose
\* status is Connected.
C3_ActiveIsConnected ==
    \A p \in DOMAIN manager.active_peers :
       /\ p \in DOMAIN manager.peer_store.peer_states
       /\ StatusOf(p) = Connected

\* C3 witness: a peer is active after the manager handled an Unregister or a
\* ban of another peer.
C3_Witness ==
    /\ last.kind \in {"Unregister", "Ban", "BanPeer"}
    /\ \E p \in DOMAIN manager.active_peers : p # last.peer_id

\* C4 (as claimed): every entry of the account index points to a peer of the
\* active set that declared that account.
C4_AccountIndexActive ==
    \A a \in DOMAIN manager.account_peers :
       /\ manager.account_peers[a] \in DOMAIN manager.active_peers
       /\ manager.active_peers[manager.account_peers[a]][2].peer_info.account_id = a

C8_AcceptedIsRegistered ==
    (last.kind = "Consolidate" /\ last.ret)
       => /\ last.peer_id \notin manager.outgoing_peers
          /\ last.peer_id \in DOMAIN manager.peer_store.peer_states
          /\ StatusOf(last.peer_id) = Connected
          /\ last.response.account_id # NoAccount
                => /\ last.response.account_id \in DOMAIN manager.account_peers
                   /\ manager.account_peers[last.response.account_id] = last.peer_id
          /\ last.peer_id \in DOMAIN manager.active_peers
          /\ manager.active_peers[last.peer_id][1] = last.actor

\* C9 (as claimed): an Unregister of a peer that is neither active nor in the
\* outgoing set changes nothing of the manager: active set, outgoing set,
\* account index, in-memory and durable peer store.
C9_UnregisterUnknownIsNoOp ==
    [][(/\ last'.kind = "Unregister"
        /\ last'.peer_id \notin DOMAIN manager.active_peers
        /\ last'.peer_id \notin manager.outgoing_peers)
        => manager' = manager]_vars

\* C10: right after a Ban or a BanPeer of a peer that has a store entry, the
\* peer is not in the active set and its store entry has status
\* Banned(reason, time of the ban) (the durable record too when the commit
\* succeeded); BanPeer is answered NoResponse.
C10_BannedAfterBan ==
    (last.kind \in {"Ban", "BanPeer"} /\ last.was_known)
       => /\ last.peer_id \notin DOMAIN manager.active_peers
          /\ last.peer_id \in DOMAIN manager.peer_store.peer_states
          /\ StatusOf(last.peer_id) = Banned(last.reason, now)
          /\ last.ok => /\ last.peer_id \in DOMAIN manager.peer_store.store
                        /\ manager.peer_store.store[last.peer_id].status
                              = Banned(last.reason, now)
          /\ last.kind = "BanPeer" => last.response.kind = "NoResponse"

\* C10 witness: a BanPeer was handled for a peer that was in the active set.
C10_Witness ==
    /\ last.kind = "BanPeer"
    /\ last.was_known
    /\ last.was_active

\* C11 (as claimed), checked under SpecSweep for the ticks in which no commit
\* of an unban failed: a tick turns every entry Banned(_, since) with
\* now - since > ban_window into NotConnected (the expiry of the same tick may
\* then remove it), also when the interval of another entry cannot be
\* converted, and leaves every other Banned entry as it was.
C11_UnbanSweep ==
    [][(last'.kind = "monitor_peers" /\ ~last'.response.unban_failed)
        => \A p \in DOMAIN manager.peer_store.peer_states :
              LET old == manager.peer_store.peer_states[p]
                  new == manager'.peer_store.peer_states
              IN  old.status.kind = "Banned"
                     => IF now - old.status.since > ban_window
                        THEN p \in DOMAIN new => new[p].status = NotConnected
                        ELSE p \in DOMAIN new /\ new[p] = old]_vars

\* C12 (as claimed): every run of monitor_peers ends with the next run
\* scheduled, whatever failed in it (a timestamp conversion, the commit of an
\* unban, remove_expired), so the control loop never stops.
C12_TickReschedules ==
    last.kind = "monitor_peers" => monitor_scheduled

\* C13 (as claimed), checked under SpecConnect: the active set and the
\* outgoing set together never hold more than peer_max_count peers.
C13_PeerMaxCount ==
    Cardinality(DOMAIN manager.active_peers) + Cardinality(manager.outgoing_peers)
       <= peer_max_count

\* C14: a tick that gets as far as the outbound bootstrap enqueues no
\* OutboundTcpConnect and sends no PeersRequest when
\* |active| + |outgoing| >= peer_max_count; otherwise, when the store (after the
\* unbans of the tick) has a peer with status NotConnected or Unknown, it
\* enqueues exactly one OutboundTcpConnect, for one of those peers, and sends no
\* PeersRequest; and when there is none it enqueues nothing and sends a
\* PeersRequest to every session of the active set.
C14_OutboundBootstrap ==
    [][(last'.kind = "monitor_peers" /\ last'.response.bootstrap)
        => LET states == manager.peer_store.peer_states
               size == Cardinality(DOMAIN manager.active_peers)
                          + Cardinality(manager.outgoing_peers)
               pool == {k \in DOMAIN states :
                           \/ states[k].status.kind \in {"NotConnected", "Unknown"}
                           \/ /\ states[k].status.kind = "Banned"
                              /\ now - states[k].status.since > ban_window}
               requests == SelectSeq(last'.sent, LAMBDA x : x.message = "PeersRequest")
               sessions == {manager.active_peers[k][1] : k \in DOMAIN manager.active_peers}
           IN  IF size >= peer_max_count
               THEN mailbox' = mailbox /\ requests = <<>>
               ELSE IF pool # {}
                    THEN /\ \E k \in pool : mailbox' = Append(mailbox, states[k].peer_info)
                         /\ requests = <<>>
                    ELSE /\ mailbox' = mailbox
                         /\ {requests[i].to : i \in 1..Len(requests)} = sessions]_vars

\* C14 witness: a tick found no peer to dial and sent a PeersRequest to the
\* sessions of the active set.
C14_Witness ==
    /\ last.kind = "monitor_peers"
    /\ last.response.bootstrap
    /\ \E i \in 1..Len(last.sent) : last.sent[i].message = "PeersRequest"
    /\ mailbox = <<>>

\* C15, checked under SpecLive: a peer id that is in the outgoing set is
\* eventually not in it, when every session in handshake has its Consolidate
\* handled or times out, and every Unregister emitted is handled.
C15_ReservationReleased ==
    \A p \in PeerIds :
       (p \in manager.outgoing_peers) ~> (p \notin manager.outgoing_peers)

\* C15 witness: the Unregister of an outbound session whose Consolidate was
\* rejected or whose handshake timed out released the reservation of its peer.
C15_Witness ==
    /\ last.kind = "Unregister"
    /\ last.peer_type = Outbound
    /\ last.was_outgoing
    /\ last.peer_id \notin manager.outgoing_peers

\* C16 (as claimed): when the manager handles OutboundTcpConnect for a peer
\* with an address and the resolver or the TCP connect fails, the peer is in
\* the outgoing set afterwards.
C16_DialFailureLeaks ==
    [][(/\ last'.kind = "OutboundTcpConnect"
        /\ ~last'.ret
        /\ Head(mailbox).addr)
        => last'.peer_id \in manager'.outgoing_peers]_vars

\* C16 (amended): when the manager handles OutboundTcpConnect for a peer with
\* an address and the resolver or the TCP connect fails, the manager is left
\* as it was: no reservation is made, and the peer is in the outgoing set
\* afterwards only if it was there before.
C16_DialFailureNoReservation ==
    [][(/\ last'.kind = "OutboundTcpConnect"
        /\ ~last'.ret
        /\ Head(mailbox).addr)
        => manager' = manager]_vars

\* C16 witness: the dial of a peer with an address, not in the outgoing set,
\* failed, and the peer is not in the outgoing set.
C16_Witness ==
    /\ last.kind = "OutboundTcpConnect"
    /\ ~last.ret
    /\ last.was_known
    /\ manager.peer_store.peer_states[last.peer_id].peer_info.addr
    /\ ~last.was_outgoing
    /\ last.peer_id \notin manager.outgoing_peers

\* C17: right after a restart on the same durable store, every peer that has
\* a durable PEERS record is in the in-memory store with status NotConnected,
\* whatever status the record holds, and the active set, the outgoing set and
\* the account index are empty.
C17_RestartTrustsNothing ==
    last.kind = "Restart"
       => /\ \A p \in DOMAIN manager.peer_store.store :
                /\ p \in DOMAIN manager.peer_store.peer_states
                /\ StatusOf(p) = NotConnected
          /\ DOMAIN manager.active_peers = {}
          /\ manager.outgoing_peers = {}
          /\ DOMAIN manager.account_peers = {}

\* C17 witness: a restart with a durable record whose status is Connected or
\* Banned.
C17_Witness ==
    /\ last.kind = "Restart"
    /\ \E p \in DOMAIN manager.peer_store.store :
          manager.peer_store.store[p].status.kind \in {"Connected", "Banned"}

\* C18 (as claimed): right after the store is opened, every configured boot
\* node is in the in-memory store; one without a loaded PEERS record has the
\* boot node's peer info and status NotConnected, one with a loaded record
\* keeps that record (with its status forced to NotConnected); and with an
\* empty durable store the in-memory store holds exactly the boot nodes.
C18_BootNodesNotConnected ==
    last.kind \in {"new", "Restart"}
       => \A boot_nodes \in BootNodeSets :
             /\ \A b \in boot_nodes :
                   /\ b.id \in DOMAIN manager.peer_store.peer_states
                   /\ IF b.id \in DOMAIN manager.peer_store.store
                      THEN manager.peer_store.peer_states[b.id]
                              = [manager.peer_store.store[b.id] EXCEPT !.status = NotConnected]
                      ELSE /\ manager.peer_store.peer_states[b.id].peer_info = b
                           /\ StatusOf(b.id) = NotConnected
             /\ DOMAIN manager.peer_store.store = {}
                   => DOMAIN manager.peer_store.peer_states = {b.id : b \in boot_nodes}

\* C19: add_peers, called by the PeersResponse handler with the listed peers
\* other than the manager itself, inserts with status Unknown exactly the
\* listed peers that have no store entry, leaves every existing entry as it
\* was, and writes nothing to the durable store.
C19_AddPeersFrame ==
    [][last'.kind = "PeersResponse"
        => LET listed == {p \in last'.response.peers : p.id # manager.peer_id}
               old == manager.peer_store.peer_states
               new == manager'.peer_store.peer_states
           IN  /\ DOMAIN new = (DOMAIN old) \cup {p.id : p \in listed}
               /\ \A k \in DOMAIN old : new[k] = old[k]
               /\ \A p \in listed :
                     p.id \notin DOMAIN old
                        => new[p.id].status = Unknown /\ new[p.id].peer_info = p
               /\ manager'.peer_store.store = manager.peer_store.store]_vars

\* C19 witness: a list with a peer that had no entry, now Unknown, and a peer
\* that had one with other peer info, which was kept.
C19_Witness ==
    /\ last.kind = "PeersResponse"
    /\ \E p, q \in last.response.peers :
          /\ p.id \in DOMAIN manager.peer_store.peer_states
          /\ manager.peer_store.peer_states[p.id].peer_info = p
          /\ StatusOf(p.id) = Unknown
          /\ manager.peer_store.peer_states[p.id].last_seen = now
          /\ q.id \in DOMAIN manager.peer_store.peer_states
          /\ manager.peer_store.peer_states[q.id].peer_info # q
          /\ StatusOf(q.id) # Unknown

\* C20: handling a PeersResponse creates no store entry for the manager's own
\* id; the other listed ids that had no entry are added with status Unknown;
\* the active set, the outgoing set, the account index and the durable store
\* are unchanged.
C20_PeersResponseHygiene ==
    [][last'.kind = "PeersResponse"
        => LET old == manager.peer_store.peer_states
               new == manager'.peer_store.peer_states
           IN  /\ manager.peer_id \notin DOMAIN old => manager.peer_id \notin DOMAIN new
               /\ \A p \in last'.response.peers :
                     (p.id # manager.peer_id /\ p.id \notin DOMAIN old)
                        => p.id \in DOMAIN new /\ new[p.id].status = Unknown
               /\ manager'.active_peers = manager.active_peers
               /\ manager'.outgoing_peers = manager.outgoing_peers
               /\ manager'.account_peers = manager.account_peers
               /\ manager'.peer_store.store = manager.peer_store.store]_vars

\* C20 witness: a PeersResponse that lists the manager's own id was handled
\* when the store had no entry for it, and there is none; another peer of the
\* list was added.
C20_Witness ==
    /\ last.kind = "PeersResponse"
    /\ \E p \in last.response.peers : p.id = manager.peer_id
    /\ manager.peer_id \notin DOMAIN manager.peer_store.peer_states
    /\ \E q \in last.response.peers :
          /\ q.id \in DOMAIN manager.peer_store.peer_states
          /\ manager.peer_store.peer_states[q.id].peer_info = q
          /\ StatusOf(q.id) = Unknown

-----------------------------------------------------------------------------
(* C21..C30: the queries of the store, expiry, absent peers, failed        *)
(* commits, and the delivery of messages.                                  *)

C22_RemoveExpired ==
    [][(last'.kind = "monitor_peers" /\ last'.response.bootstrap /\ last'.ok)
        => LET old == after_unban(manager, to_unban(manager, now), {}).peer_store
               new == manager'.peer_store
               expired == {k \in DOMAIN old.peer_states :
                              /\ old.peer_states[k].status # Connected
                              /\ old.peer_states[k].last_seen < now - peer_expiration_duration}
           IN  /\ DOMAIN new.peer_states = (DOMAIN old.peer_states) \ expired
               /\ DOMAIN new.store = (DOMAIN old.store) \ expired
               /\ \A k \in DOMAIN new.peer_states : new.peer_states[k] = old.peer_states[k]
               /\ \A k \in DOMAIN new.store : new.store[k] = old.store[k]
               /\ \A k \in DOMAIN manager'.active_peers : k \in DOMAIN new.peer_states]_vars

\* C23 as stated: peer_disconnected, peer_ban and peer_unban on an id with no
\* store entry return an error and leave the store as it is, and the handling
\* of Unregister, Ban or BanPeer for such an id leaves the active set, the
\* outgoing set, the account index and the store unchanged, BanPeer answering
\* NoResponse.
C23_AbsentPeerNoOp ==
    [][/\ \A id \in PeerIds \ DOMAIN manager.peer_store.peer_states :
          \A ok \in BOOLEAN, reason \in Reasons :
             LET ps == manager.peer_store
             IN  /\ peer_disconnected(ps, id, now, ok) = [ps |-> ps, ok |-> FALSE]
                 /\ peer_ban(ps, id, reason, now, ok) = [ps |-> ps, ok |-> FALSE]
                 /\ peer_unban(ps, id, ok) = [ps |-> ps, ok |-> FALSE]
       /\ (last'.kind \in {"Unregister", "Ban", "BanPeer"} /\ ~last'.was_known)
             => /\ manager'.active_peers = manager.active_peers
                /\ manager'.outgoing_peers = manager.outgoing_peers
                /\ manager'.account_peers = manager.account_peers
                /\ manager'.peer_store = manager.peer_store
                /\ last'.kind = "BanPeer" => last'.response = [kind |-> "NoResponse"]]_vars

\* C23, amended: as above, except that an Unregister for an id with no store
\* entry that is in the outgoing set removes it from the outgoing set (and
\* changes nothing else).
C23_AbsentPeerOnlyReleased ==
    [][/\ \A id \in PeerIds \ DOMAIN manager.peer_store.peer_states :
          \A ok \in BOOLEAN, reason \in Reasons :
             LET ps == manager.peer_store
             IN  /\ peer_disconnected(ps, id, now, ok) = [ps |-> ps, ok |-> FALSE]
                 /\ peer_ban(ps, id, reason, now, ok) = [ps |-> ps, ok |-> FALSE]
                 /\ peer_unban(ps, id, ok) = [ps |-> ps, ok |-> FALSE]
       /\ (last'.kind \in {"Unregister", "Ban", "BanPeer"} /\ ~last'.was_known)
             => /\ manager'.active_peers = manager.active_peers
                /\ manager'.outgoing_peers =
                      IF last'.kind = "Unregister"
                      THEN manager.outgoing_peers \ {last'.peer_id}
                      ELSE manager.outgoing_peers
                /\ manager'.account_peers = manager.account_peers
                /\ manager'.peer_store = manager.peer_store
                /\ last'.kind = "BanPeer" => last'.response = [kind |-> "NoResponse"]]_vars

\* C23 witness: a BanPeer for a peer the store has no entry of was handled and
\* answered NoResponse; the store still has no entry of it.
C23_Witness ==
    /\ last.kind = "BanPeer"
    /\ ~last.was_known
    /\ last.response = [kind |-> "NoResponse"]
    /\ last.peer_id \notin DOMAIN manager.peer_store.peer_states
    /\ last.peer_id \notin DOMAIN manager.peer_store.store

\* C24: when the durable commit of a store operation fails, what the operation
\* did in memory stands and the durable store is as it was: an accepted
\* Consolidate leaves its peer Connected and seen now, an Unregister
\* NotConnected and seen now, a Ban or BanPeer Banned since now, a tick whose
\* unban failed leaves that peer NotConnected, and a tick whose remove_expired
\* failed leaves no expired peer in memory; Consolidate still answers true and
\* BanPeer NoResponse.
C24_FailedCommitStands ==
    [][LET p == last'.peer_id
           old == manager.peer_store
           new == manager'.peer_store
       IN  /\ (last'.kind = "Consolidate" /\ last'.ret /\ ~last'.ok)
                 => /\ new.peer_states[p].status = Connected
                    /\ new.peer_states[p].last_seen = now
                    /\ new.store = old.store
           /\ (last'.kind = "Unregister" /\ ~last'.was_outgoing /\ last'.was_known /\ ~last'.ok)
                 => /\ new.peer_states[p].status = NotConnected
                    /\ new.peer_states[p].last_seen = now
                    /\ new.store = old.store
           /\ (last'.kind \in {"Ban", "BanPeer"} /\ last'.was_known /\ ~last'.ok)
                 => /\ new.peer_states[p].status = Banned(last'.reason, now)
                    /\ new.peer_states[p].last_seen = now
                    /\ new.store = old.store
                    /\ last'.kind = "BanPeer" => last'.response = [kind |-> "NoResponse"]
           /\ (last'.kind = "monitor_peers" /\ last'.response.unban_failed)
                 => \E k \in to_unban(manager, now) :
                       /\ new.peer_states[k].status = NotConnected
                       /\ k \in DOMAIN old.store
                             => k \in DOMAIN new.store /\ new.store[k] = old.store[k]
                       /\ k \notin DOMAIN old.store => k \notin DOMAIN new.store
           /\ (last'.kind = "monitor_peers" /\ last'.response.bootstrap /\ ~last'.ok)
                 => LET mid == after_unban(manager, to_unban(manager, now), {}).peer_store
                    IN  /\ new.store = mid.store
                        /\ (\A k \in DOMAIN mid.peer_states :
                               to_std_ok(now, mid.peer_states[k].last_seen))
                              => DOMAIN new.peer_states =
                                    (DOMAIN mid.peer_states) \ expired_peers(mid, now)]_vars

\* C24 witness: the commit of the Unregister of an active peer failed; the
\* peer is NotConnected in memory and still Connected in the durable store.
C24_Witness ==
    /\ last.kind = "Unregister"
    /\ last.was_active
    /\ ~last.was_outgoing
    /\ ~last.ok
    /\ StatusOf(last.peer_id) = NotConnected
    /\ last.peer_id \in DOMAIN manager.peer_store.store
    /\ manager.peer_store.store[last.peer_id].status = Connected

\* C25: a Block request sends the block exactly once to the session of every
\* peer of the active set and to no other; BlockRequest and
\* BlockHeadersRequest send exactly once to the session of peer_id when it is
\* in the active set and nothing otherwise; each answers NoResponse and
\* leaves the manager (active set, outgoing set, account index, peer store)
\* as it was.
C25_DeliveryToActiveOnly ==
    [][last'.kind \in {"Block", "BlockRequest", "BlockHeadersRequest"}
        => LET active == manager.active_peers
               sent == last'.sent
           IN  /\ manager' = manager
               /\ last'.response = [kind |-> "NoResponse"]
               /\ last'.kind = "Block"
                     => /\ Len(sent) = Cardinality(DOMAIN active)
                        /\ \A k \in DOMAIN active :
                              Cardinality({i \in 1..Len(sent) :
                                  sent[i] = [to |-> active[k][1], message |-> "Block"]}) = 1
               /\ last'.kind # "Block"
                     => sent = IF last'.peer_id \in DOMAIN active
                               THEN <<[to |-> active[last'.peer_id][1],
                                       message |-> last'.kind]>>
                               ELSE <<>>]_vars

\* C25 witness: a Block request was handled with two peers in the active set
\* and two messages were sent, to two sessions.
C25_Witness ==
    /\ last.kind = "Block"
    /\ Cardinality(DOMAIN manager.active_peers) = 2
    /\ Len(last.sent) = 2
    /\ last.sent[1].to # last.sent[2].to

\* C26: in every state, for every account a that a peer of the active set
\* declared in its handshake, send_message_to_account(a, m) sends m exactly
\* once, to the session of an active peer that declared a; for an account that
\* is not in the account index it sends nothing.
C26_RoutingByAccount ==
    \A a \in Accounts :
       LET active == manager.active_peers
           declared == {r \in DOMAIN active : active[r][2].peer_info.account_id = a}
           sent == send_message_to_account(manager, a, "BlockApproval")
       IN  /\ declared # {}
                => /\ Len(sent) = 1
                   /\ \E r \in declared :
                         sent[1] = [to |-> active[r][1], message |-> "BlockApproval"]
           /\ a \notin DOMAIN manager.account_peers => sent = <<>>

\* C27: when the session under which a peer r of the active set was admitted
\* with an account has ended and the manager has handled its Unregister(r),
\* r is not in the active set, the account r declared is not in the account
\* index, and send_message_to_account for that account sends nothing.
C27_UnregisterRemoves ==
    [][(/\ last'.kind = "Unregister"
        /\ last'.peer_id \in DOMAIN manager.active_peers
        /\ manager.active_peers[last'.peer_id][1] = last'.actor
        /\ manager.active_peers[last'.peer_id][2].peer_info.account_id # NoAccount)
        => LET r == last'.peer_id
               a == manager.active_peers[r][2].peer_info.account_id
           IN  /\ r \notin DOMAIN manager'.active_peers
               /\ a \notin DOMAIN manager'.account_peers
               /\ send_message_to_account(manager', a, "BlockApproval") = <<>>]_vars

\* C28: handling BlockHeaderAnnounce sends a BlockApproval if and only if the
\* request has an approval, the node has an account_id, and the target
\* account is in the account index with an active peer; it goes once, to that
\* peer's session.  The header is sent exactly once to the session of every
\* peer of the active set in all cases, after the approval, and the answer is
\* NoResponse.
C28_ApprovalThenHeader ==
    [][last'.kind = "BlockHeaderAnnounce"
        => LET req == last'.request
               sent == last'.sent
               active == manager.active_peers
               index == manager.account_peers
               routed == /\ req.approval
                         /\ manager.account_id # NoAccount
                         /\ req.target \in DOMAIN index
                         /\ index[req.target] \in DOMAIN active
               approvals == {i \in 1..Len(sent) : sent[i].message = "BlockApproval"}
               headers == {i \in 1..Len(sent) : sent[i].message = "BlockHeaderAnnounce"}
           IN  /\ last'.response = [kind |-> "NoResponse"]
               /\ approvals \cup headers = 1..Len(sent)
               /\ routed
                     => /\ Cardinality(approvals) = 1
                        /\ \A i \in approvals : sent[i].to = active[index[req.target]][1]
               /\ ~routed => approvals = {}
               /\ Cardinality(headers) = Cardinality(DOMAIN active)
               /\ \A k \in DOMAIN active : \E i \in headers : sent[i].to = active[k][1]
               /\ \A i \in approvals, j \in headers : i < j]_vars

\* C28 witness: a node with an account handled a BlockHeaderAnnounce with an
\* approval for the account of an active peer: the approval was sent first,
\* the header after it.
C28_Witness ==
    /\ last.kind = "BlockHeaderAnnounce"
    /\ last.request.approval
    /\ manager.account_id # NoAccount
    /\ Len(last.sent) >= 2
    /\ last.sent[1].message = "BlockApproval"
    /\ last.sent[2].message = "BlockHeaderAnnounce"

C30_GossipNotDurable ==
    LET boot == UNION {{p.id : p \in b} : b \in BootNodeSets}
    IN  \A p \in DOMAIN manager.peer_store.store :
           \/ p \in boot
           \/ \E a \in 1..Len(peers) : peers[a].admitted /\ peers[a].peer_id = p

-----------------------------------------------------------------------------
(* C31..C38: the durable store against the memory, sessions that were not  *)
(* admitted, the dwell time of a ban, and what the manager keeps out.      *)

\* C31 as stated: when no commit fails, every peer with a durable record has an
\* in-memory entry whose status is the recorded status, and a peer that a step
\* removes from the memory has no durable record after it.
C31_Lockstep ==
    [][LET old == manager.peer_store
           new == manager'.peer_store
       IN  /\ \A p \in DOMAIN new.store :
                 /\ p \in DOMAIN new.peer_states
                 /\ new.peer_states[p].status = new.store[p].status
           /\ \A p \in (DOMAIN old.peer_states) \ DOMAIN new.peer_states :
                 p \notin DOMAIN new.store]_vars

\* C31, amended: when no commit fails, every peer with a durable record has an
\* in-memory entry that is the record itself, or, for a record that was loaded
\* when the store was opened and has not been written since, the record with
\* its status reset to NotConnected; a peer that a step removes from the memory
\* has no durable record after it.
C31_LockstepWithinRun ==
    [][LET old == manager.peer_store
           new == manager'.peer_store
       IN  /\ \A p \in DOMAIN new.store :
                 /\ p \in DOMAIN new.peer_states
                 /\ \/ new.peer_states[p] = new.store[p]
                    \/ new.peer_states[p] = [new.store[p] EXCEPT !.status = NotConnected]
           /\ \A p \in (DOMAIN old.peer_states) \ DOMAIN new.peer_states :
                 p \notin DOMAIN new.store]_vars

\* C31 witness: the manager restarted on a store with the record of a
\* Connected peer; the record still says Connected, the memory NotConnected.
C31_Witness ==
    /\ last.kind = "Restart"
    /\ \E p \in DOMAIN manager.peer_store.store :
          /\ manager.peer_store.store[p].status = Connected
          /\ StatusOf(p) = NotConnected

\* C33: the Unregister(p) of a session that was never admitted, handled while
\* a remote peer p is in the active set through another session, leaves p in the active set
\* with that other session and leaves the store status of p Connected.
C33_NoEvictionByStranger ==
    [][(/\ last'.kind = "Unregister"
        /\ last'.peer_id \in DOMAIN manager.active_peers
        /\ manager.active_peers[last'.peer_id][1] # last'.actor
        /\ ~peers[last'.actor].admitted
        /\ last'.peer_id # manager.peer_id)
        => LET p == last'.peer_id
           IN  /\ p \in DOMAIN manager'.active_peers
               /\ manager'.active_peers[p] = manager.active_peers[p]
               /\ manager'.peer_store.peer_states[p].status = Connected]_vars

\* C34: within a run, a remote peer whose store status is Banned(_, since)
\* stays Banned, and out of the active set, through every step except a tick
\* with now - since > ban_window and a tick that removes its entry.
C34_BanLastsTheWindow ==
    [][\A p \in DOMAIN manager.peer_store.peer_states :
          (p # manager.peer_id /\ StatusOf(p).kind = "Banned" /\ last'.kind # "Restart")
             => \/ /\ p \in DOMAIN manager'.peer_store.peer_states
                   /\ manager'.peer_store.peer_states[p].status.kind = "Banned"
                   /\ p \notin DOMAIN manager'.active_peers
                \/ /\ last'.kind = "monitor_peers"
                   /\ \/ now - StatusOf(p).since > ban_window
                      \/ p \notin DOMAIN manager'.peer_store.peer_states]_vars

\* C35: when a tick enqueues OutboundTcpConnect{p}, p is neither in the active
\* set nor in the outgoing set; and no two outbound sessions to the same peer
\* are in their handshake at once.
C35_NoDialOfConnectedPeer ==
    [][/\ (/\ last'.kind = "monitor_peers" /\ last'.peer_id # NoPeer
           /\ last'.peer_id # manager.peer_id)
             => /\ last'.peer_id \notin DOMAIN manager.active_peers
                /\ last'.peer_id \notin manager.outgoing_peers
       /\ \A a, b \in 1..Len(peers') :
             (/\ peers'[a].peer_type = Outbound /\ peers'[a].status = "Handshake"
              /\ peers'[b].peer_type = Outbound /\ peers'[b].status = "Handshake"
              /\ peers'[a].expected = peers'[b].expected)
                => a = b]_vars

\* C36: every store entry whose in-memory status is Connected belongs to a peer
\* in the active set, also after a durable commit failed in peer_connected,
\* peer_disconnected or peer_ban.
C36_ConnectedIsActive ==
    \A p \in DOMAIN manager.peer_store.peer_states :
        manager.peer_store.peer_states[p].status.kind = "Connected"
            => p \in DOMAIN manager.active_peers

\* C37: the manager's own peer id is never in the active set nor in the
\* outgoing set, whatever Consolidate messages arrive and whatever the boot
\* node list holds.
C37_NeverOwnPeer ==
    /\ manager.peer_id \notin DOMAIN manager.active_peers
    /\ manager.peer_id \notin manager.outgoing_peers

\* C38: a rejected Consolidate changes nothing: when the handler returns false,
\* the active set, the outgoing set, the account index and the peer store (in
\* memory and durable) are what they were before the message.
C38_RejectedConsolidateIsNoOp ==
    [][(last'.kind = "Consolidate" /\ ~last'.ret)
          => /\ manager'.active_peers = manager.active_peers
             /\ manager'.outgoing_peers = manager.outgoing_peers
             /\ manager'.account_peers = manager.account_peers
             /\ manager'.peer_store.peer_states = manager.peer_store.peer_states
             /\ manager'.peer_store.store = manager.peer_store.store]_vars

\* A Consolidate of an inbound session was rejected by the tie-break while the
\* dial to the same peer is pending, and the pending dial is still there.
C38_Witness ==
    /\ last.kind = "Consolidate" /\ ~last.ret
    /\ last.peer_type = Inbound
    /\ last.was_outgoing /\ ~last.was_active
    /\ last.peer_id \in manager.outgoing_peers

====
